---- MODULE Spec2Model ----
(***************************************************************************)
(* A model of the paginated REST client of src/api_client/api_client.py:   *)
(* RateLimiter.wait_if_needed and the request loop of                      *)
(* PaginatedAPIClient.get_paginated_data, one action per loop iteration.   *)
(***************************************************************************)
EXTENDS Integers, Sequences, FiniteSets, TLC

(***************************************************************************)
(* Bounds of the model.                                                    *)
(***************************************************************************)
\* the most requests one run is followed for (the loop itself is unbounded)
MaxRequests == 3
\* page_size ranges over 1..MaxPageSize
MaxPageSize == 2
\* a supplied max_pages ranges over 0..MaxMaxPages
MaxMaxPages == 2
\* the simulated offset endpoint holds 1..MaxTotal items
MaxTotal == 5
\* min_interval ranges over 1..MaxMinInterval clock ticks
MaxMinInterval == 2
\* a sleep, and the time between two calls, overshoot by 0..MaxDelay ticks
MaxDelay == 1
\* the most wait_if_needed calls followed on a limiter used on its own
MaxCalls == 3
\* start_page ranges over 0..MaxStartPage
MaxStartPage == 2
MaxArgc == 3

(***************************************************************************)
(* Python values.  A value is a record with its type t and, by type: s,    *)
(* the elements Python yields when iterating it (the items of a list, the  *)
(* characters of a str, the keys of a dict); n, the number of a num or a   *)
(* bool; u, the URL reference a str spells (what urlparse makes of it).    *)
(***************************************************************************)
NoURL == [scheme |-> "", netloc |-> "", abs |-> FALSE, segs |-> <<>>, query |-> <<>>]

NullV == [t |-> "null"]
NumV(k) == [t |-> "num", n |-> k]
BoolV(b) == [t |-> "bool", n |-> IF b THEN 1 ELSE 0]
ListV(items) == [t |-> "list", s |-> items]
ObjV(keys) == [t |-> "obj", s |-> keys]
StrV(chars, ref) == [t |-> "str", s |-> chars, u |-> ref]
\* a str that is not read as a URL
TextV(chars) == StrV(chars, NoURL)

\* bool(v): None, 0, False and every empty container are falsy
Truthy(v) ==
    CASE v.t \in {"num", "bool"} -> v.n # 0
      [] v.t \in {"list", "str", "obj"} -> v.s # <<>>
      [] OTHER -> FALSE

\* iter(v) exists: list.extend(v) raises TypeError on a number
Iterable(v) == v.t \in {"list", "str", "obj"}

(***************************************************************************)
(* dicts.  A parsed JSON body is [shape, ent, elems]: shape "dict" with    *)
(* its entries ent in key iteration order, shape "list" with its elements  *)
(* elems, or shape "scalar" (the JSON null, None).  A parameter dict is a  *)
(* function from its keys to values.                                       *)
(***************************************************************************)
DictBody(ent) == [shape |-> "dict", ent |-> ent, elems |-> <<>>]
ListBody(elems) == [shape |-> "list", ent |-> <<>>, elems |-> elems]
ScalarBody == [shape |-> "scalar", ent |-> <<>>, elems |-> <<>>]

\* key in data
HasKey(data, key) == \E i \in DOMAIN data.ent : data.ent[i].k = key

\* data.get(key, default)
DictGet(data, key, default) ==
    IF HasKey(data, key)
    THEN data.ent[CHOOSE i \in DOMAIN data.ent : data.ent[i].k = key].v
    ELSE default

\* params[key] = value
DictSet(params, key, value) ==
    [x \in DOMAIN params \cup {key} |-> IF x = key THEN value ELSE params[x]]

\* a bug that lets the values already in params stand
DictUpdateKeepsOld(params, other) ==
    [x \in DOMAIN params \cup DOMAIN other |->
        IF x \in DOMAIN params THEN params[x] ELSE other[x]]

\* params.update(other)
DictUpdate(params, other) ==
    [x \in DOMAIN params \cup DOMAIN other |->
        IF x \in DOMAIN other THEN other[x] ELSE params[x]]

(***************************************************************************)
(* URLs.  A URL reference is [scheme, netloc, abs, segs, query]: abs says  *)
(* whether the path starts with "/", segs are the path's segments, query   *)
(* the sequence of its key=value pairs (values as character sequences).    *)
(***************************************************************************)
\* next_url.startswith(('http://', 'https://'))
StartsWithHttp(ref) == ref.scheme \in {"http", "https"}

\* urlparse(url).path, as the reference made of that path alone
PathOf(ref) == [NoURL EXCEPT !.abs = ref.abs, !.segs = ref.segs]

\* the values parse_qs collects for one key, blank values dropped
RECURSIVE QueryValues(_, _)
QueryValues(query, key) ==
    IF query = <<>> THEN <<>>
    ELSE LET rest == QueryValues(Tail(query), key)
         IN IF Head(query).k = key /\ Head(query).v # <<>>
            THEN <<Head(query).v>> \o rest
            ELSE rest

\* {k: v[0] if len(v) == 1 else v for k, v in parse_qs(query).items()}
ParseQuery(query) ==
    LET keys == {query[i].k : i \in {j \in DOMAIN query : query[j].v # <<>>}}
    IN [k \in keys |->
          LET v == QueryValues(query, k)
          IN IF Len(v) = 1 THEN TextV(v[1]) ELSE ListV(v)]

\* the path of base without its last segment (RFC 3986 merge)
DirOf(segs) == IF segs = <<>> THEN <<>> ELSE SubSeq(segs, 1, Len(segs) - 1)

\* urllib.parse.urljoin(base, ref), for references without dot segments
urljoin(base, ref) ==
    IF ref = NoURL THEN base
    ELSE IF ref.scheme # "" /\ ref.scheme # base.scheme THEN ref
    ELSE IF ref.netloc # "" THEN [ref EXCEPT !.scheme = base.scheme]
    ELSE IF ref.segs = <<>> /\ ~ref.abs
         THEN [base EXCEPT !.query = IF ref.query = <<>> THEN base.query ELSE ref.query]
    ELSE IF ref.abs
         THEN [base EXCEPT !.abs = TRUE, !.segs = ref.segs, !.query = ref.query]
    ELSE [base EXCEPT !.abs = TRUE, !.segs = DirOf(base.segs) \o ref.segs,
                      !.query = ref.query]

(***************************************************************************)
(* Default parameter names of get_paginated_data.                          *)
(***************************************************************************)
page_param == "page"
size_param == "page_size"
offset_param == "offset"
next_page_key == "next"
total_key == "total"

\* PaginatedAPIClient._find_data_array
common_keys == <<"results", "data", "items", "records", "rows", "entries">>

IsListAt(data, key) == HasKey(data, key) /\ DictGet(data, key, NullV).t = "list"

FirstListValue(data) ==
    LET hits == {i \in DOMAIN data.ent : data.ent[i].v.t = "list"}
    IN IF hits = {} THEN ListV(<<>>)
       ELSE data.ent[CHOOSE i \in hits : \A j \in hits : i <= j].v

\* a bug that takes the first common key the body has, list or not
find_data_array_any_value(data) ==
    LET hits == {i \in DOMAIN common_keys : HasKey(data, common_keys[i])}
    IN IF hits # {}
       THEN DictGet(data, common_keys[CHOOSE i \in hits : \A j \in hits : i <= j], NullV)
       ELSE FirstListValue(data)

find_data_array(data) ==
    LET hits == {i \in DOMAIN common_keys : IsListAt(data, common_keys[i])}
    IN IF hits # {}
       THEN DictGet(data, common_keys[CHOOSE i \in hits : \A j \in hits : i <= j], NullV)
       ELSE FirstListValue(data)

(***************************************************************************)
(* The state of one client and of the pagination call that is running on   *)
(* it, and the state of the SecurityTester script.                         *)
(***************************************************************************)
VARIABLES
    \* the client, the method called ("get_paginated_data" or
    \* "get_paginated_data_by_url") and the arguments of the call
    base_url, method, pagination_type, page_size, max_pages, data_key,
    custom_params, stop_condition, start_page,
    \* the locals of get_paginated_data, and current_url of
    \* get_paginated_data_by_url
    endpoint, all_data, page, offset, cursor, next_url, total_items,
    pages_retrieved, current_url,
    \* where the call is: "running", "returned" (all_data is the result) or
    \* "raised" (error names the exception; nothing is returned)
    status, error,
    \* the requests issued so far, what the transport answered to each, and
    \* the bodies stop_condition was called on
    requests, responses, stop_calls,
    \* the endpoint the client talks to
    server,
    \* the client's RateLimiter, the wall clock, and one record per
    \* wait_if_needed call: when it was entered, how long it slept, when it returned
    min_interval, last_call_time, now, waits,
    \* every request the client's session has sent, over all its calls: when,
    \* where to, and by which method
    sent,
    \* the frame (arguments, locals, position) of a second call on the same
    \* client that is suspended while the first one runs
    suspended,
    \* security-tests.py: len(sys.argv), where the script is, the index of the
    \* next entry of tests, the probes called so far, the results list, what
    \* run_all_tests returned and the status the process exited with
    argc, pc, next_test, called, results, success, exit_status

config == <<base_url, method, pagination_type, page_size, max_pages, data_key,
            custom_params, stop_condition, start_page, server, min_interval>>
limiter == <<last_call_time, now, waits>>
locals == <<endpoint, all_data, page, offset, cursor, next_url, total_items,
            pages_retrieved, current_url>>
call == <<locals, status, error, requests, responses, stop_calls>>
tester == <<argc, pc, next_test, called, results, success, exit_status>>
vars == <<config, call, limiter, sent, suspended, tester>>

\* the caller's stop_condition, when one is given:
\* lambda d: isinstance(d, dict) and d.get("done")
StopCondition(data) == data.shape = "dict" /\ Truthy(DictGet(data, "done", NullV))

(***************************************************************************)
(* RateLimiter.  Time is counted in clock ticks; time.time() reads now.    *)
(***************************************************************************)
\* lines 36-40: how long wait_if_needed sleeps when entered at current_time
\* a limiter whose comparison is one tick too lenient
SleepTimeShort(current_time, last, interval) ==
    IF current_time - last < interval - 1 THEN interval - (current_time - last) ELSE 0

SleepTime(current_time, last, interval) ==
    IF current_time - last < interval THEN interval - (current_time - last) ELSE 0

\* RateLimiter.wait_if_needed; time.sleep blocks for at least the time asked,
\* and delay more ticks pass before the second time.time()
wait_if_needed(delay) ==
    LET sleep_time == SleepTime(now, last_call_time, min_interval)
        returned == now + sleep_time + delay
    IN /\ now' = returned
       /\ last_call_time' = returned
       /\ waits' = Append(waits, [entered |-> now, slept |-> sleep_time,
                                  returned |-> returned])

\* a bug that sends the request without asking the limiter
make_request_unlimited(url, delay) ==
    /\ now' = now + delay
    /\ sent' = Append(sent, [at |-> now', url |-> url, method |-> method])
    /\ UNCHANGED <<last_call_time, waits>>

\* _make_request, lines 127-141: the limiter first, then session.request
make_request(url, delay) ==
    /\ wait_if_needed(delay)
    /\ sent' = Append(sent, [at |-> now', url |-> url, method |-> method])

(***************************************************************************)
(* Building the request: lines 196-226 and _make_request's urljoin.        *)
(***************************************************************************)
UsesNextUrl == pagination_type = "url" /\ next_url # NoURL

\* endpoint as the request uses it (the url branch rebinds it)
RequestEndpoint == IF UsesNextUrl THEN PathOf(next_url) ELSE endpoint

\* a bug that forgets the cursor parameter
WithoutCursor(params) == DictSet(params, size_param, NumV(page_size))

\* lines 218-219
WithCursor(params) ==
    DictSet(DictSet(params, "cursor", cursor), size_param, NumV(page_size))

RequestParams ==
    CASE UsesNextUrl -> DictUpdate(ParseQuery(next_url.query), custom_params)
      [] pagination_type = "page" ->
            DictSet(DictSet(custom_params, page_param, NumV(page)),
                    size_param, NumV(page_size))
      [] pagination_type = "offset" ->
            DictSet(DictSet(custom_params, offset_param, NumV(offset)),
                    size_param, NumV(page_size))
      [] pagination_type = "cursor" /\ Truthy(cursor) -> WithCursor(custom_params)
      [] pagination_type = "cursor" /\ ~Truthy(cursor) ->
            DictSet(custom_params, size_param, NumV(page_size))
      [] pagination_type = "url" /\ ~UsesNextUrl ->
            DictSet(DictSet(custom_params, page_param, NumV(page)),
                    size_param, NumV(page_size))

\* _make_request: url = urljoin(self.base_url, endpoint)
RequestUrl == urljoin(base_url, RequestEndpoint)

Request == [url |-> RequestUrl, params |-> RequestParams]

(***************************************************************************)
(* Handling the answer: lines 231-310.  Each operator takes the locals as  *)
(* a record L and gives them back as the code leaves them.                 *)
(***************************************************************************)
Raised(L, exception) == [L EXCEPT !.status = "raised", !.error = exception]
Break(L) == [L EXCEPT !.status = "returned"]

\* lines 234-240; err names the exception the extraction raises, if any
ExtractItems(data) ==
    IF data_key # ""
    THEN IF data.shape = "dict"
         THEN [err |-> "", v |-> DictGet(data, data_key, ListV(<<>>))]
         ELSE [err |-> "AttributeError", v |-> NullV]
    ELSE IF data.shape = "list" THEN [err |-> "", v |-> ListV(data.elems)]
    ELSE IF data.shape = "dict" THEN [err |-> "", v |-> find_data_array(data)]
    ELSE [err |-> "TypeError", v |-> NullV]    \* "results" in None

\* a bug that puts the new page in front of the pages collected before
ExtendInFront(all, items) == items.s \o all

\* all_data.extend(items)
Extend(all, items) == all \o items.s

\* a bug that stops one page late
MaxPagesExceeded(maxp, retrieved) == Truthy(maxp) /\ retrieved > maxp.n

\* if max_pages and pages_retrieved >= max_pages
MaxPagesReached(maxp, retrieved) == Truthy(maxp) /\ retrieved >= maxp.n

\* if next_page_key in data and data[next_page_key]
HasNext(data) ==
    /\ data.shape = "dict"
    /\ HasKey(data, next_page_key)
    /\ Truthy(DictGet(data, next_page_key, NullV))

\* lines 271-283
AdvanceUrl(L, data, items) ==
    IF HasNext(data)
    THEN LET nxt == DictGet(data, next_page_key, NullV)
         IN IF nxt.t # "str" THEN Raised(L, "AttributeError")
            ELSE [L EXCEPT !.next_url = IF StartsWithHttp(nxt.u) THEN nxt.u
                                        ELSE urljoin(base_url, nxt.u)]
    ELSE IF Len(items.s) < page_size THEN Break(L)
    ELSE [L EXCEPT !.page = @ + 1]

\* a bug that counts pages in cursor strategy too
AdvanceCursorCountsPages(L, data) ==
    IF HasNext(data)
    THEN [L EXCEPT !.cursor = DictGet(data, next_page_key, NullV), !.page = @ + 1]
    ELSE Break(L)

\* lines 285-291
AdvanceCursor(L, data) ==
    IF HasNext(data)
    THEN [L EXCEPT !.cursor = DictGet(data, next_page_key, NullV)]
    ELSE Break(L)

\* a bug that takes a full page for the last one
AdvancePageStopsOnFull(L, items) ==
    IF Len(items.s) <= page_size THEN Break(L) ELSE [L EXCEPT !.page = @ + 1]

\* lines 293-298
AdvancePage(L, items) ==
    IF Len(items.s) < page_size THEN Break(L) ELSE [L EXCEPT !.page = @ + 1]

\* a bug that takes a full page for the last one
AdvanceOffsetStopsOnFull(L, items) ==
    IF Len(items.s) <= page_size THEN Break(L)
    ELSE [L EXCEPT !.offset = @ + Len(items.s)]

\* a bug that counts page_size items for a page, whatever its length
AdvanceOffsetByPageSize(L, items) ==
    IF Len(items.s) < page_size THEN Break(L)
    ELSE LET M == [L EXCEPT !.offset = @ + page_size]
         IN IF ~Truthy(M.total_items) THEN M
            ELSE IF M.total_items.t # "num" THEN Raised(M, "TypeError")
            ELSE IF M.offset >= M.total_items.n THEN Break(M)
            ELSE M

\* lines 300-310
AdvanceOffset(L, items) ==
    IF Len(items.s) < page_size THEN Break(L)
    ELSE LET M == [L EXCEPT !.offset = @ + Len(items.s)]
         IN IF ~Truthy(M.total_items) THEN M
            ELSE IF M.total_items.t # "num" THEN Raised(M, "TypeError")
            ELSE IF M.offset >= M.total_items.n THEN Break(M)
            ELSE M

\* a bug that goes on after a page shorter than page_size
AdvancePastShortPage(L, data, items) ==
    CASE pagination_type = "url" -> AdvanceUrl(L, data, items)
      [] pagination_type = "cursor" -> AdvanceCursor(L, data)
      [] pagination_type = "page" -> [L EXCEPT !.page = @ + 1]
      [] pagination_type = "offset" -> [L EXCEPT !.offset = @ + Len(items.s)]

\* lines 270-310
Advance(L, data, items) ==
    CASE pagination_type = "url" -> AdvanceUrl(L, data, items)
      [] pagination_type = "cursor" -> AdvanceCursor(L, data)
      [] pagination_type = "page" -> AdvancePage(L, items)
      [] pagination_type = "offset" -> AdvanceOffset(L, items)

\* a bug that asks the caller's stop_condition before looking at max_pages
CheckStopsPredicateFirst(L, data, items) ==
    IF stop_condition = "none"
    THEN IF MaxPagesReached(max_pages, L.pages_retrieved) THEN Break(L)
         ELSE Advance(L, data, items)
    ELSE LET M == [L EXCEPT !.stop_calls = Append(@, data)]
         IN IF StopCondition(data) THEN Break(M)
            ELSE IF MaxPagesReached(max_pages, L.pages_retrieved) THEN Break(M)
            ELSE Advance(M, data, items)

\* lines 261-268, then the strategy's step
CheckStops(L, data, items) ==
    IF MaxPagesReached(max_pages, L.pages_retrieved) THEN Break(L)
    ELSE IF stop_condition = "none" THEN Advance(L, data, items)
    ELSE LET M == [L EXCEPT !.stop_calls = Append(@, data)]
         IN IF StopCondition(data) THEN Break(M) ELSE Advance(M, data, items)

\* lines 255-259: data.get(total_key) of a body that is no dict raises
RecordTotal(L, data, items) ==
    IF total_key # "" /\ L.total_items = NullV
    THEN IF data.shape # "dict" THEN Raised(L, "AttributeError")
         ELSE CheckStops([L EXCEPT !.total_items = DictGet(data, total_key, NullV)],
                         data, items)
    ELSE CheckStops(L, data, items)

\* a bug that takes an empty page for a page like any other
AppendPageEvenEmpty(L, data, items) ==
    IF ~Iterable(items) THEN Raised(L, "TypeError")
    ELSE RecordTotal([L EXCEPT !.all_data = Extend(@, items),
                               !.pages_retrieved = @ + 1],
                     data, items)

\* lines 242-248
AppendPage(L, data, items) ==
    IF ~Truthy(items) THEN Break(L)
    ELSE IF ~Iterable(items) THEN Raised(L, "TypeError")
    ELSE RecordTotal([L EXCEPT !.all_data = Extend(@, items),
                               !.pages_retrieved = @ + 1],
                     data, items)

\* a bug that swallows a failure and returns what was collected
HandleReturnsPartial(L, outcome) ==
    IF outcome.kind = "body"
    THEN LET ex == ExtractItems(outcome.data)
         IN IF ex.err # "" THEN Raised(L, ex.err)
            ELSE AppendPage(L, outcome.data, ex.v)
    ELSE Break(L)

\* lines 228-317, given what the transport answered
Handle(L, outcome) ==
    CASE outcome.kind = "transport_error" -> Raised(L, "RequestException")
      [] outcome.kind = "invalid_json" -> Raised(L, "ValueError")
      [] outcome.kind = "body" ->
            LET ex == ExtractItems(outcome.data)
            IN IF ex.err # "" THEN Raised(L, ex.err)
               ELSE AppendPage(L, outcome.data, ex.v)

Locals ==
    [status |-> status, error |-> error, all_data |-> all_data, page |-> page,
     offset |-> offset, cursor |-> cursor, next_url |-> next_url,
     total_items |-> total_items, pages_retrieved |-> pages_retrieved,
     stop_calls |-> stop_calls]

\* one iteration of the while loop of get_paginated_data: the request goes
\* through _make_request, which calls the limiter first
Iterate(outcome, delay) ==
    /\ method = "get_paginated_data"
    /\ status = "running"
    /\ Len(requests) < MaxRequests
    /\ make_request(RequestUrl, delay)
    /\ requests' = Append(requests, Request)
    /\ responses' = Append(responses, outcome)
    /\ endpoint' = RequestEndpoint
    /\ LET L == Handle(Locals, outcome)
       IN /\ status' = L.status
          /\ error' = L.error
          /\ all_data' = L.all_data
          /\ page' = L.page
          /\ offset' = L.offset
          /\ cursor' = L.cursor
          /\ next_url' = L.next_url
          /\ total_items' = L.total_items
          /\ pages_retrieved' = L.pages_retrieved
          /\ stop_calls' = L.stop_calls
    /\ UNCHANGED <<config, current_url, suspended, tester>>

(***************************************************************************)
(* get_paginated_data_by_url, lines 347-436.  current_url is held as the   *)
(* URL reference urlparse makes of it; NoURL stands for None and "".       *)
(***************************************************************************)
\* while current_url and (max_pages is None or pages_retrieved < max_pages)
UrlLoopGoesOn(url, maxp, retrieved) ==
    url # NoURL /\ (maxp = NullV \/ retrieved < maxp.n)

\* lines 377-393: the path of current_url, in both branches
UrlRequestEndpoint == PathOf(current_url)
\* parse_qs of its query, single values unwrapped
UrlRequestParams == ParseQuery(current_url.query)
UrlRequest ==
    [url |-> urljoin(base_url, UrlRequestEndpoint), params |-> UrlRequestParams]

\* lines 426-430 and the loop condition: data.get of a body that is no dict
\* raises, and so does startswith of a truthy value that is no str
FollowLink(L, data) ==
    IF data.shape # "dict" THEN Raised(L, "AttributeError")
    ELSE LET nxt == DictGet(data, next_page_key, NullV)
         IN IF ~Truthy(nxt) THEN Break([L EXCEPT !.current_url = NoURL])
            ELSE IF nxt.t # "str" THEN Raised(L, "AttributeError")
            ELSE LET M == [L EXCEPT !.current_url =
                               IF StartsWithHttp(nxt.u) THEN nxt.u
                               ELSE urljoin(base_url, nxt.u)]
                 IN IF UrlLoopGoesOn(M.current_url, max_pages, M.pages_retrieved)
                    THEN M ELSE Break(M)

\* lines 407-424
UrlAppendPage(L, data, items) ==
    IF ~Truthy(items) THEN Break(L)
    ELSE IF ~Iterable(items) THEN Raised(L, "TypeError")
    ELSE LET M == [L EXCEPT !.all_data = Extend(@, items),
                            !.pages_retrieved = @ + 1]
         IN IF stop_condition = "none" THEN FollowLink(M, data)
            ELSE LET N == [M EXCEPT !.stop_calls = Append(@, data)]
                 IN IF StopCondition(data) THEN Break(N) ELSE FollowLink(N, data)

\* lines 373-434, given what the transport answered
HandleByUrl(L, outcome) ==
    CASE outcome.kind = "transport_error" -> Raised(L, "RequestException")
      [] outcome.kind = "invalid_json" -> Raised(L, "ValueError")
      [] outcome.kind = "body" ->
            LET ex == ExtractItems(outcome.data)
            IN IF ex.err # "" THEN Raised(L, ex.err)
               ELSE UrlAppendPage(L, outcome.data, ex.v)

UrlLocals ==
    [status |-> status, error |-> error, all_data |-> all_data,
     current_url |-> current_url, pages_retrieved |-> pages_retrieved,
     stop_calls |-> stop_calls]

\* one iteration of the while loop of get_paginated_data_by_url, up to the
\* evaluation of the loop condition that follows it
IterateByUrl(outcome, delay) ==
    /\ method = "get_paginated_data_by_url"
    /\ status = "running"
    /\ Len(requests) < MaxRequests
    /\ make_request(UrlRequest.url, delay)
    /\ requests' = Append(requests, UrlRequest)
    /\ responses' = Append(responses, outcome)
    /\ endpoint' = UrlRequestEndpoint
    /\ LET L == HandleByUrl(UrlLocals, outcome)
       IN /\ status' = L.status
          /\ error' = L.error
          /\ all_data' = L.all_data
          /\ current_url' = L.current_url
          /\ pages_retrieved' = L.pages_retrieved
          /\ stop_calls' = L.stop_calls
    /\ UNCHANGED <<config, page, offset, cursor, next_url, total_items, suspended,
                   tester>>

(***************************************************************************)
(* The endpoints the client is run against.  server.kind is                *)
(*   "any":    every answer is possible at every request: a dict with a    *)
(*             list of items and the keys the strategy reads, a bare list, *)
(*             a scalar, a transport failure, a body that is not JSON;     *)
(*   "mixed":  dicts whose value under data_key is of any JSON type;       *)
(*   "links":  full pages that carry a next link of every form;            *)
(*   "offset": the endpoint holds server.total items and serves the slice  *)
(*             the request's offset and size parameters ask for;           *)
(*   "full":   the endpoint always serves a full page of synthetic items;  *)
(*   "probe":  dicts without the usual keys, for _find_data_array;         *)
(*   "static": full pages with a next link or token, asked for with        *)
(*             custom_params that collide with the pagination keys;        *)
(*   "bylinks": for get_paginated_data_by_url: a page of none or one item  *)
(*             with no next link, a falsy one or a link of every form;     *)
(*   "endless": full pages with a next link or token, for ever;            *)
(*   "drying": the same up to request server.dry_from, from which on the   *)
(*             page is empty or, for offset and page, shorter than asked.  *)
(***************************************************************************)
Absent == [t |-> "absent"]

\* the dict {"items": .., "next": .., "total": .., "done": ..} without the
\* keys whose value is Absent
MkBody(items, nxt, total, done) ==
    DictBody(SelectSeq(<<[k |-> "items", v |-> items], [k |-> "next", v |-> nxt],
                         [k |-> "total", v |-> total], [k |-> "done", v |-> done]>>,
                       LAMBDA e : e.v # Absent))

ItemNames == <<"a", "b", "c", "d", "e", "f">>
PageOf(k) == ListV(SubSeq(ItemNames, 1, k))
ItemLists == {PageOf(k) : k \in 0..MaxPageSize}
\* what a body may hold under data_key instead of a list: "cd", {"k": ..}, 7, null
NonLists == {TextV(<<"c", "d">>), ObjV(<<"k">>), NumV(7), NullV, Absent}

Tok1 == TextV(<<"t", "o", "k", "1">>)
Tok2 == TextV(<<"t", "o", "k", "2">>)

Page2 == <<[k |-> "page", v |-> <<"2">>]>>
\* https://h and https://h/v1
BaseRoot == [scheme |-> "https", netloc |-> "h", abs |-> FALSE, segs |-> <<>>, query |-> <<>>]
BaseV1 == [BaseRoot EXCEPT !.abs = TRUE, !.segs = <<"v1">>]
BaseUrls == {BaseRoot, BaseV1}
\* /items
ItemsEndpoint == [NoURL EXCEPT !.abs = TRUE, !.segs = <<"items">>]
\* the next links "/items?page=2", "items?page=2", "https://h/items?page=2",
\* "https://o/items?page=2" and "https://h?page=2"
RelNext ==
    StrV(<<"/", "i", "t", "e", "m", "s", "?", "p", "a", "g", "e", "=", "2">>,
         [ItemsEndpoint EXCEPT !.query = Page2])
RelBare == StrV(Tail(RelNext.s), [RelNext.u EXCEPT !.abs = FALSE])
AbsSame ==
    StrV(<<"h", "t", "t", "p", "s", ":", "/", "/", "h">> \o RelNext.s,
         [RelNext.u EXCEPT !.scheme = "https", !.netloc = "h"])
AbsOther ==
    StrV(<<"h", "t", "t", "p", "s", ":", "/", "/", "o">> \o RelNext.s,
         [RelNext.u EXCEPT !.scheme = "https", !.netloc = "o"])
AbsHost ==
    StrV(<<"h", "t", "t", "p", "s", ":", "/", "/", "h", "?", "p", "a", "g", "e", "=", "2">>,
         [BaseRoot EXCEPT !.query = Page2])
Links == {RelNext, RelBare, AbsSame, AbsOther, AbsHost}

NextVals ==
    CASE pagination_type = "cursor" -> {Absent, NullV, TextV(<<>>), Tok1, Tok2}
      [] pagination_type = "url" -> {Absent, RelNext, AbsOther}
      [] OTHER -> {Absent}
TotalVals == IF pagination_type = "offset" THEN {Absent, NumV(0), NumV(2)} ELSE {Absent}
DoneVals == IF stop_condition = "done" THEN {Absent, BoolV(TRUE)} ELSE {Absent}

AnyBodies ==
    {MkBody(i, n, t, d) : i \in ItemLists, n \in NextVals, t \in TotalVals, d \in DoneVals}
    \cup {ListBody(<<>>), ListBody(<<"a">>), ScalarBody}

MixedBodies == {MkBody(i, Absent, Absent, Absent) : i \in ItemLists \cup NonLists}

LinkBodies == {MkBody(PageOf(page_size), n, Absent, Absent) : n \in Links}

Min(a, b) == IF a < b THEN a ELSE b
\* items first..last of the endpoint's data set, named "1", "2", ...
Slice(first, last) == [i \in 1..(last - first + 1) |-> ToString(first + i - 1)]

OffsetBody(params) ==
    LET off == params[offset_param].n
        size == params[size_param].n
    IN MkBody(ListV(Slice(off + 1, Min(off + size, server.total))), Absent,
              IF server.reports_total THEN NumV(server.total) ELSE Absent, Absent)

FullBody(params) == MkBody(ListV(Slice(1, params[size_param].n)), Absent, Absent, Absent)

\* bodies that make _find_data_array search: {"results": ["a"]},
\* {"data": "cd", "items": ["b"]}, {"rows": ["c"], "results": ["a"]},
\* {"foo": "cd"}, {"foo": "cd", "zeta": ["d"], "alpha": ["e"]},
\* {"entries": 7, "foo": ["c"]}, {} and {"results": [], "foo": ["a"]}
One(name) == ListV(<<name>>)
ProbeBodies ==
    {DictBody(<<[k |-> "results", v |-> One("a")]>>),
     DictBody(<<[k |-> "data", v |-> TextV(<<"c", "d">>)], [k |-> "items", v |-> One("b")]>>),
     DictBody(<<[k |-> "rows", v |-> One("c")], [k |-> "results", v |-> One("a")]>>),
     DictBody(<<[k |-> "foo", v |-> TextV(<<"c", "d">>)]>>),
     DictBody(<<[k |-> "foo", v |-> TextV(<<"c", "d">>)], [k |-> "zeta", v |-> One("d")],
                [k |-> "alpha", v |-> One("e")]>>),
     DictBody(<<[k |-> "entries", v |-> NumV(7)], [k |-> "foo", v |-> One("c")]>>),
     DictBody(<<>>),
     DictBody(<<[k |-> "results", v |-> ListV(<<>>)], [k |-> "foo", v |-> One("a")]>>)}

\* the next link "/items?page=2&q=z"
StaticLink ==
    StrV(RelNext.s \o <<"&", "q", "=", "z">>,
         [ItemsEndpoint EXCEPT !.query = Page2 \o <<[k |-> "q", v |-> <<"z">>]>>])
\* what tells the strategy that there is more: a link, a token, nothing
NextSignal ==
    CASE pagination_type = "url" \/ method = "get_paginated_data_by_url" -> StaticLink
      [] pagination_type = "cursor" -> Tok1
      [] OTHER -> Absent
StaticBody == MkBody(PageOf(page_size), NextSignal, Absent, Absent)
\* custom_params: {"q": "x"}, and the same with every pagination key in it
PlainParams == [q |-> TextV(<<"x">>)]
CollidingParams ==
    [q |-> TextV(<<"x">>), page |-> TextV(<<"9">>), page_size |-> TextV(<<"7">>),
     offset |-> TextV(<<"3">>), cursor |-> TextV(<<"c", "0">>)]

\* the empty pages {"items": []}, the same with the next link or token, {},
\* and [] for a caller that names no data_key
EmptyPages ==
    {MkBody(PageOf(0), Absent, Absent, Absent),
     MkBody(PageOf(0), NextSignal, Absent, Absent),
     DictBody(<<>>)}
    \cup IF data_key = "" THEN {ListBody(<<>>)} ELSE {}
\* a page one item shorter than page_size, where the strategy counts items
ShortPages ==
    IF pagination_type \in {"offset", "page"} /\ page_size > 1
    THEN {MkBody(PageOf(page_size - 1), Absent, Absent, Absent)}
    ELSE {}
DryingBodies ==
    IF Len(requests) + 1 >= server.dry_from THEN EmptyPages \cup ShortPages
    ELSE {StaticBody}

ByUrlBodies ==
    {MkBody(PageOf(k), n, Absent, d) :
        k \in 0..1, n \in {Absent, TextV(<<>>)} \cup Links, d \in DoneVals}

\* the bodies the endpoint may answer the next request with
Bodies ==
    CASE server.kind = "any" -> AnyBodies
      [] server.kind = "mixed" -> MixedBodies
      [] server.kind = "links" -> LinkBodies
      [] server.kind = "offset" -> {OffsetBody(RequestParams)}
      [] server.kind = "full" -> {FullBody(RequestParams)}
      [] server.kind = "probe" -> ProbeBodies
      [] server.kind \in {"static", "endless"} -> {StaticBody}
      [] server.kind = "drying" -> DryingBodies
      [] server.kind = "bylinks" -> ByUrlBodies

Server(kind) == [kind |-> kind, total |-> 0, reports_total |-> FALSE]
Servers ==
    {Server("any"), Server("mixed"), Server("links"), Server("full"),
     Server("probe"), Server("static")}
    \cup {[kind |-> "offset", total |-> n, reports_total |-> r] :
            n \in 1..MaxTotal, r \in BOOLEAN}

Strategies == {"offset", "page", "cursor", "url"}
MaxPagesArgs == {NullV} \cup {NumV(n) : n \in 0..MaxMaxPages}

\* the wall clock when the client is built: far more than any min_interval
Epoch == MaxMinInterval + 1

(***************************************************************************)
(* The state after PaginatedAPIClient.__init__ and the entry of            *)
(* get_paginated_data (lines 187-193).                                     *)
(***************************************************************************)
\* no second call on the client
NoCall == [method |-> "none"]

\* security-tests.py has not been started
TesterIdle ==
    /\ argc = 0
    /\ pc = "idle"
    /\ next_test = 1
    /\ called = <<>>
    /\ results = <<>>
    /\ success = FALSE
    /\ exit_status = -1

InitCall ==
    /\ endpoint = ItemsEndpoint
    /\ all_data = <<>>
    /\ page = IF pagination_type \in {"page", "url"} THEN start_page ELSE 0
    /\ offset = 0
    /\ cursor = NullV
    /\ next_url = NoURL
    /\ total_items = NullV
    /\ pages_retrieved = 0
    /\ current_url = NoURL
    /\ status = "running"
    /\ error = ""
    /\ requests = <<>>
    /\ responses = <<>>
    /\ stop_calls = <<>>

\* RateLimiter.__init__, and a session that has sent nothing
\* the entry of get_paginated_data_by_url(start_url), lines 369-373
InitCallByUrl(start_url) ==
    /\ endpoint = NoURL
    /\ all_data = <<>>
    /\ page = 0
    /\ offset = 0
    /\ cursor = NullV
    /\ next_url = NoURL
    /\ total_items = NullV
    /\ pages_retrieved = 0
    /\ current_url = start_url
    /\ status = IF UrlLoopGoesOn(start_url, max_pages, 0) THEN "running" ELSE "returned"
    /\ error = ""
    /\ requests = <<>>
    /\ responses = <<>>
    /\ stop_calls = <<>>

InitLimiter ==
    /\ last_call_time = 0
    /\ now = Epoch
    /\ waits = <<>>
    /\ sent = <<>>

Init ==
    /\ method = "get_paginated_data"
    /\ suspended = NoCall
    /\ TesterIdle
    /\ server \in Servers
    /\ pagination_type \in
         CASE server.kind \in {"any", "mixed"} -> Strategies
           [] server.kind = "links" -> {"url"}
           [] server.kind = "offset" -> {"offset"}
           [] server.kind \in {"full", "probe"} -> {"page"}
           [] server.kind = "static" -> Strategies
    /\ page_size \in 1..MaxPageSize
    /\ max_pages \in
         CASE server.kind = "any" -> MaxPagesArgs
           [] server.kind = "full" -> MaxPagesArgs \ {NullV, NumV(0)}
           [] OTHER -> {NullV}
    /\ data_key \in
         CASE server.kind \in {"any", "probe"} -> {""}
           [] server.kind \in {"mixed", "static"} -> {"items"}
           [] OTHER -> {"", "items"}
    /\ stop_condition \in IF server.kind = "any" THEN {"none", "done"} ELSE {"none"}
    /\ base_url \in IF server.kind = "links" THEN BaseUrls ELSE {BaseRoot}
    /\ custom_params \in
         CASE server.kind = "any" -> {PlainParams}
           [] server.kind = "static" -> {PlainParams, CollidingParams}
           [] OTHER -> {<<>>}
    /\ start_page \in IF server.kind = "static" THEN 0..MaxStartPage ELSE {1}
    /\ min_interval = 1
    /\ InitCall
    /\ InitLimiter

\* the transport hands back a body that parses
FetchPage == \E data \in Bodies : Iterate([kind |-> "body", data |-> data], 0)

\* the transport raises (connection, timeout, TLS, non-2xx after its retries)
TransportFails ==
    /\ server.kind = "any"
    /\ Iterate([kind |-> "transport_error", data |-> ScalarBody], 0)

\* response.json() raises: the body is not JSON
BodyInvalid ==
    /\ server.kind = "any"
    /\ Iterate([kind |-> "invalid_json", data |-> ScalarBody], 0)

Next == FetchPage \/ TransportFails \/ BodyInvalid

Spec == Init /\ [][Next]_vars

(***************************************************************************)
(* A RateLimiter used on its own: a caller that invokes wait_if_needed     *)
(* sequentially and lets any time pass between two invocations.            *)
(***************************************************************************)
InitRL ==
    /\ method = "get_paginated_data"
    /\ suspended = NoCall
    /\ TesterIdle
    /\ current_url = NoURL
    /\ server = Server("any")
    /\ pagination_type = "offset"
    /\ page_size = 1
    /\ max_pages = NullV
    /\ data_key = ""
    /\ stop_condition = "none"
    /\ base_url = BaseRoot
    /\ custom_params = <<>>
    /\ start_page = 1
    /\ min_interval \in 1..MaxMinInterval
    /\ endpoint = ItemsEndpoint
    /\ all_data = <<>>
    /\ page = 0
    /\ offset = 0
    /\ cursor = NullV
    /\ next_url = NoURL
    /\ total_items = NullV
    /\ pages_retrieved = 0
    /\ status = "idle"
    /\ error = ""
    /\ requests = <<>>
    /\ responses = <<>>
    /\ stop_calls = <<>>
    /\ InitLimiter

\* one invocation of wait_if_needed
Call ==
    /\ Len(waits) < MaxCalls
    /\ \E delay \in 0..MaxDelay : wait_if_needed(delay)
    /\ UNCHANGED <<config, call, sent, suspended, tester>>

\* the caller does something else for a tick; followed until the time since
\* the last invocation is past min_interval
Tick ==
    /\ waits # <<>>
    /\ Len(waits) < MaxCalls
    /\ now - last_call_time <= min_interval
    /\ now' = now + 1
    /\ UNCHANGED <<config, call, last_call_time, waits, sent, suspended, tester>>

NextRL == Call \/ Tick

SpecRL == InitRL /\ [][NextRL]_vars

(***************************************************************************)
(* Properties.                                                             *)
(***************************************************************************)
Last(seq) == seq[Len(seq)]
IsPrefix(a, b) == Len(a) <= Len(b) /\ SubSeq(b, 1, Len(a)) = a

IsBody(outcome) == outcome.kind = "body"

\* the items a response contributes: those extracted from its body, when the
\* extraction succeeds and finds any
PageItems(outcome) ==
    IF ~IsBody(outcome) THEN <<>>
    ELSE LET ex == ExtractItems(outcome.data)
         IN IF ex.err = "" /\ Truthy(ex.v) /\ Iterable(ex.v) THEN ex.v.s ELSE <<>>

RECURSIVE ConcatPages(_)
ConcatPages(outcomes) ==
    IF outcomes = <<>> THEN <<>>
    ELSE ConcatPages(SubSeq(outcomes, 1, Len(outcomes) - 1)) \o PageItems(Last(outcomes))

\* C1: while get_paginated_data runs and when it returns, all_data is the
\* concatenation, in request order, of the items extracted from the pages
\* fetched so far (nothing dropped, reordered or deduplicated), and a step
\* changes all_data only by appending to it.
C1_ResultIsConcatenation ==
    /\ [](status # "raised" => all_data = ConcatPages(responses))
    /\ [][IsPrefix(all_data, all_data')]_vars

\* a run that returned two pages or more, the second one after the first
C1_Witness ==
    /\ status = "returned"
    /\ pages_retrieved >= 2
    /\ Len(all_data) >= 3
    /\ all_data # <<>>
    /\ PageItems(responses[1]) # PageItems(responses[2])

Ceil(a, b) == (a + b - 1) \div b

\* the offset endpoint's last page is partial
PartialLastPage == server.kind = "offset" /\ server.total % page_size # 0

\* C2: offset strategy without max_pages, against an endpoint that serves
\* exactly total items in pages of page_size, the last one partial: the run
\* returns the total items after exactly ceil(total / page_size) requests.
C2_OffsetFetchesAll ==
    PartialLastPage =>
        /\ status # "raised"
        /\ status = "running" => Len(requests) < Ceil(server.total, page_size)
        /\ status = "returned" =>
              /\ Len(requests) = Ceil(server.total, page_size)
              /\ Len(all_data) = server.total
              /\ all_data = Slice(1, server.total)

\* such a run that took full pages and then the partial one
C2_Witness ==
    /\ PartialLastPage
    /\ pagination_type = "offset" /\ max_pages = NullV
    /\ status = "returned"
    /\ Len(requests) = MaxRequests
    /\ Len(all_data) = server.total

\* C3: page strategy with max_pages = M >= 1 against an endpoint that always
\* returns a full page: exactly M requests, exactly M * page_size items.
C3_PageStopsAtMaxPages ==
    server.kind = "full" =>
        /\ status # "raised"
        /\ status = "running" => Len(requests) < max_pages.n
        /\ status = "returned" =>
              /\ Len(requests) = max_pages.n
              /\ Len(all_data) = max_pages.n * page_size

\* such a run of several pages, stopped by max_pages
C3_Witness ==
    /\ server.kind = "full" /\ pagination_type = "page"
    /\ max_pages = NumV(MaxMaxPages) /\ page_size = MaxPageSize
    /\ status = "returned"
    /\ Len(requests) = MaxMaxPages
    /\ Len(all_data) = MaxMaxPages * MaxPageSize

\* next_page_key of the answer to request i is present and truthy
NextAfter(i) == IsBody(responses[i]) /\ HasNext(responses[i].data)

\* C4: cursor strategy: the first request carries the size parameter and the
\* caller's static parameters and no cursor of its own; every later request carries
\* cursor = the value under next_page_key of the answer before it; and after
\* an answer whose next_page_key is absent or falsy no request follows.
C4_CursorFollowsToken ==
    pagination_type = "cursor" =>
        /\ \A i \in DOMAIN requests :
              /\ requests[i].params[size_param] = NumV(page_size)
              /\ \A k \in DOMAIN custom_params \ {size_param, "cursor"} :
                    requests[i].params[k] = custom_params[k]
              /\ i = 1 =>
                    /\ DOMAIN requests[i].params = {size_param} \cup DOMAIN custom_params
                    /\ "cursor" \in DOMAIN custom_params =>
                          requests[i].params["cursor"] = custom_params["cursor"]
              /\ i > 1 =>
                    /\ NextAfter(i - 1)
                    /\ "cursor" \in DOMAIN requests[i].params
                    /\ requests[i].params["cursor"] =
                          DictGet(responses[i - 1].data, next_page_key, NullV)
        /\ status = "running" /\ responses # <<>> => NextAfter(Len(responses))

\* the answers {items, next: "tok1"} then {items, next: null}: two requests,
\* the second with cursor=tok1, and the run has returned
C4_Witness ==
    /\ pagination_type = "cursor"
    /\ status = "returned"
    /\ Len(requests) = 2
    /\ DictGet(responses[1].data, "next", Absent) = Tok1
    /\ DictGet(responses[2].data, "next", Absent) = NullV
    /\ PageItems(responses[2]) # <<>>
    /\ requests[2].params["cursor"] = Tok1

\* where a next link leads: an absolute link to itself, a relative one to
\* its resolution against base_url
LinkTarget(link) ==
    IF StartsWithHttp(link.u) THEN link.u ELSE urljoin(base_url, link.u)

\* the request goes to the target's scheme, host and path, with the
\* target's query (the caller's custom_params on top)
GoesTo(request, target) ==
    /\ request.url.scheme = target.scheme
    /\ request.url.netloc = target.netloc
    /\ request.url.abs = target.abs
    /\ request.url.segs = target.segs
    /\ request.params = DictUpdate(ParseQuery(target.query), custom_params)

\* C5: url strategy: the request after an answer with a next link goes to
\* that link's target, for relative and for absolute links, whatever the
\* base_url and the link's host.
C5_NextLinkFollowed ==
    pagination_type = "url" =>
        \A i \in DOMAIN requests :
            i > 1 /\ NextAfter(i - 1)
                  /\ DictGet(responses[i - 1].data, next_page_key, NullV).t = "str" =>
                GoesTo(requests[i],
                       LinkTarget(DictGet(responses[i - 1].data, next_page_key, NullV)))

\* C6: with max_pages supplied (0 included), a run that has appended a page
\* and has pages_retrieved >= max_pages has stopped.
C6_MaxPagesStops ==
    /\ max_pages # NullV
    /\ pages_retrieved >= 1
    /\ pages_retrieved >= max_pages.n
    /\ status # "raised"
    => status = "returned"

\* the extraction succeeds and finds nothing
EmptyAnswer(outcome) ==
    /\ IsBody(outcome)
    /\ LET ex == ExtractItems(outcome.data) IN ex.err = "" /\ ~Truthy(ex.v)

\* C7: an answer whose extracted items are empty ends the run at once and
\* successfully: the result is what was accumulated, pages_retrieved is not
\* incremented, stop_condition is not called, the cursor state is left as it
\* was, and no request follows.
C7_EmptyPageStops ==
    /\ [][responses' # responses /\ EmptyAnswer(Last(responses')) =>
            /\ status' = "returned" /\ error' = ""
            /\ all_data' = all_data
            /\ pages_retrieved' = pages_retrieved
            /\ stop_calls' = stop_calls
            /\ <<page, offset, cursor, next_url, total_items>>' =
                  <<page, offset, cursor, next_url, total_items>>]_vars
    /\ [](\A i \in DOMAIN responses :
             EmptyAnswer(responses[i]) => i = Len(responses) /\ status = "returned")

\* an empty page after a page, under a max_pages not yet reached and with a
\* stop_condition that would have fired on the empty page's body
C7_Witness ==
    /\ status = "returned"
    /\ Len(responses) = 2 /\ EmptyAnswer(responses[2])
    /\ pages_retrieved = 1 /\ all_data # <<>>
    /\ max_pages = NumV(MaxMaxPages)
    /\ stop_condition = "done" /\ StopCondition(responses[2].data)
    /\ Len(stop_calls) = 1

Failure(outcome) == outcome.kind \in {"transport_error", "invalid_json"}

\* C8: a transport failure or a body that does not parse ends the call with
\* the error raised, at any iteration: nothing is returned and no request
\* follows.
C8_FailurePropagates ==
    \A i \in DOMAIN responses :
        Failure(responses[i]) =>
            /\ i = Len(responses)
            /\ status = "raised"
            /\ error = IF responses[i].kind = "transport_error"
                       THEN "RequestException" ELSE "ValueError"

\* a failure at the third request, after two pages were collected
C8_Witness ==
    /\ Len(responses) = 3 /\ Failure(responses[3])
    /\ pages_retrieved = 2 /\ all_data # <<>>
    /\ status = "raised"

\* what the answer holds under data_key, when that is a list
ListUnderDataKey(outcome) ==
    LET v == DictGet(outcome.data, data_key, Absent)
    IN IF v.t = "list" THEN v.s ELSE <<>>

RECURSIVE ConcatLists(_)
ConcatLists(outcomes) ==
    IF outcomes = <<>> THEN <<>>
    ELSE ConcatLists(SubSeq(outcomes, 1, Len(outcomes) - 1))
            \o ListUnderDataKey(Last(outcomes))

\* C10: with a data_key, the items of a body are body[data_key] when that is
\* a list and none otherwise: a value that is no list raises nothing and
\* adds nothing to the result.
C10_DataKeyExtraction ==
    server.kind = "mixed" =>
        /\ status # "raised"
        /\ all_data = ConcatLists(responses)

\* the time N consecutive invocations take, from the first one's entry to the
\* last one's return
Elapsed == Last(waits).returned - waits[1].entered

\* C9: any two consecutive returns of wait_if_needed on one limiter are at
\* least min_interval apart, so N consecutive invocations take at least
\* (N - 1) * min_interval; the first invocation on a fresh limiter does not
\* sleep; and every invocation leaves in last_call_time the time read after
\* its wait.
C9_CallsAreSpaced ==
    /\ \A i \in 2..Len(waits) :
          waits[i].returned - waits[i - 1].returned >= min_interval
    /\ waits # <<>> =>
          /\ waits[1].slept = 0
          /\ Elapsed >= (Len(waits) - 1) * min_interval
          /\ last_call_time = Last(waits).returned
          /\ Last(waits).returned >= Last(waits).entered + Last(waits).slept

\* the limiter was invoked again before min_interval had passed, and slept
C9_Witness ==
    /\ Len(waits) >= 2
    /\ \E i \in 2..Len(waits) :
          /\ waits[i].entered - waits[i - 1].returned < min_interval
          /\ waits[i].slept > 0
          /\ last_call_time = waits[i].returned

\* the first list among the values of the entries, in the entries' order
RECURSIVE FirstListOf(_)
FirstListOf(ent) ==
    IF ent = <<>> THEN <<>>
    ELSE IF Head(ent).v.t = "list" THEN Head(ent).v.s
    ELSE FirstListOf(Tail(ent))

\* the list under the first of keys that holds one, else the first list of
\* the body, else nothing
RECURSIVE ProbeInOrder(_, _)
ProbeInOrder(data, keys) ==
    IF keys = <<>> THEN FirstListOf(data.ent)
    ELSE LET held == SelectSeq(data.ent, LAMBDA e : e.k = Head(keys) /\ e.v.t = "list")
         IN IF held # <<>> THEN held[1].v.s ELSE ProbeInOrder(data, Tail(keys))

PriorityOrder == <<"results", "data", "items", "records", "rows", "entries">>

RECURSIVE ConcatProbed(_)
ConcatProbed(outcomes) ==
    IF outcomes = <<>> THEN <<>>
    ELSE ConcatProbed(SubSeq(outcomes, 1, Len(outcomes) - 1))
            \o ProbeInOrder(Last(outcomes).data, PriorityOrder)

\* C11: without a data_key the items of an object body are the list under
\* the first of results, data, items, records, rows, entries that holds a
\* list, else the first list-valued entry in the body's order, else none,
\* and no error is raised.
C11_ProbeOrder ==
    /\ \A i \in DOMAIN responses :
          data_key = "" /\ IsBody(responses[i]) /\ responses[i].data.shape = "dict" =>
              ExtractItems(responses[i].data) =
                  [err |-> "", v |-> ListV(ProbeInOrder(responses[i].data, PriorityOrder))]
    /\ server.kind = "probe" =>
          /\ status # "raised"
          /\ all_data = ConcatProbed(responses)
          /\ \A i \in DOMAIN responses :
                ProbeInOrder(responses[i].data, PriorityOrder) = <<>> =>
                    i = Len(responses) /\ status = "returned"

\* a run over three bodies: a list behind a higher-priority key that holds a
\* str, a list found by iteration order past a str, and a body with no list
C11_Witness ==
    /\ server.kind = "probe" /\ status = "returned" /\ Len(responses) = 3
    /\ HasKey(responses[1].data, "data") /\ HasKey(responses[1].data, "items")
    /\ HasKey(responses[2].data, "zeta")
    /\ responses[3].data = DictBody(<<[k |-> "foo", v |-> TextV(<<"c", "d">>)]>>)
    /\ all_data = <<"b", "d">>

\* C12: with no data_key and the default next_page_key and total_key, a
\* body that is a non-empty list is taken as the page's items and appended,
\* and the run is not in an error state.
C12_BareListIsAPage ==
    \A i \in DOMAIN responses :
        /\ data_key = ""
        /\ IsBody(responses[i])
        /\ responses[i].data.shape = "list"
        /\ responses[i].data.elems # <<>>
        => /\ status # "raised"
           /\ pages_retrieved >= i
           /\ Len(all_data) >= Len(responses[i].data.elems)

\* request i of a url run is built from a next-URL: an earlier answer
\* carried a next link
FromNextUrl(i) == pagination_type = "url" /\ \E j \in 1..(i - 1) : NextAfter(j)

\* the keys the active strategy designates for pagination
DesignatedKeys ==
    CASE pagination_type = "page" -> {page_param, size_param}
      [] pagination_type = "offset" -> {offset_param, size_param}
      [] pagination_type = "cursor" -> {"cursor", size_param}
      [] pagination_type = "url" -> {page_param, size_param}

CallerParamsKept ==
    \A i \in DOMAIN requests :
        \A k \in DOMAIN custom_params :
            /\ k \in DOMAIN requests[i].params
            /\ (k \notin DesignatedKeys \/ FromNextUrl(i)) =>
                  (requests[i].params[k] = custom_params[k])

\* C13: in every request each custom_params entry keeps the caller's value
\* unless its key is a pagination key of the active strategy; in a url
\* request built from a next-URL the caller's value wins on every key; and
\* the caller's custom_params mapping is never changed by the run.
C13_CallerParamsKept ==
    /\ []CallerParamsKept
    /\ [][custom_params' = custom_params]_vars

\* a url request built from the link /items?page=2&q=z under custom_params
\* that hold page and q: both carry the caller's values
C13_Witness ==
    /\ pagination_type = "url" /\ custom_params = CollidingParams
    /\ Len(requests) >= 2 /\ FromNextUrl(2)
    /\ DictGet(responses[1].data, next_page_key, NullV) = StaticLink
    /\ requests[2].params["page"] = TextV(<<"9">>)
    /\ requests[2].params["q"] = TextV(<<"x">>)
    /\ requests[1].params["page"] = NumV(start_page)

\* the max_pages stop fires at the page this step appends (the step gets
\* as far as the stop checks: it does not raise)
MaxPagesFires ==
    /\ status' # "raised"
    /\ max_pages # NullV /\ max_pages.n >= 1 /\ pages_retrieved' >= max_pages.n

\* what holds of a step that appends a page, whose body is the answer the
\* step received
StopOrder ==
    LET body == Last(responses').data
    IN /\ stop_calls' = stop_calls \/ stop_calls' = Append(stop_calls, body)
       /\ MaxPagesFires => stop_calls' = stop_calls /\ status' = "returned"
       /\ ~MaxPagesFires /\ stop_condition # "none" /\ status' # "raised" =>
             stop_calls' = Append(stop_calls, body)
       /\ stop_calls' # stop_calls /\ StopCondition(body) =>
             /\ status' = "returned" /\ error' = ""
             /\ all_data' = all_data \o PageItems(Last(responses'))
             /\ <<page, offset, cursor, next_url>>' = <<page, offset, cursor, next_url>>

\* C14: after a page is appended max_pages is looked at first and the
\* stop_condition second: the stop_condition is called at most once per
\* appended page, on that page's body, never on a page at which max_pages
\* stopped the run, and never for a page that was not appended; when it
\* returns true the run has returned with the page included and the paging
\* state as it was, and a run that has returned takes no further step.
C14_StopOrder ==
    /\ [][pages_retrieved' = pages_retrieved + 1 => StopOrder]_vars
    /\ [][pages_retrieved' = pages_retrieved => stop_calls' = stop_calls]_vars
    /\ [][status = "running"]_vars

\* a cursor run stopped by the stop_condition at its first page, whose body
\* carried a next token that was not taken up
C14_Witness ==
    /\ pagination_type = "cursor" /\ stop_condition = "done"
    /\ max_pages = NumV(MaxMaxPages)
    /\ status = "returned" /\ pages_retrieved = 1 /\ all_data # <<>>
    /\ stop_calls = <<responses[1].data>>
    /\ StopCondition(responses[1].data)
    /\ HasNext(responses[1].data) /\ cursor = NullV

\* the number of items accumulated when request i is issued
ItemsBefore(i) == Len(ConcatPages(SubSeq(responses, 1, i - 1)))

\* C15: offset strategy: the offset parameter of every request is the
\* number of items accumulated so far, 0 on the first request, also after
\* pages longer than page_size, and it grows strictly from one request to
\* the next; while the run goes on the offset is the length of the result.
C15_OffsetCountsItems ==
    pagination_type = "offset" =>
        /\ \A i \in DOMAIN requests :
              /\ requests[i].params[offset_param] = NumV(ItemsBefore(i))
              /\ i > 1 => requests[i].params[offset_param].n >
                             requests[i - 1].params[offset_param].n
        /\ requests # <<>> => requests[1].params[offset_param] = NumV(0)
        /\ status = "running" => offset = Len(all_data)

\* a third request after two pages of which the first was longer than
\* page_size
C15_Witness ==
    /\ pagination_type = "offset" /\ server.kind = "any"
    /\ Len(requests) = 3
    /\ Len(PageItems(responses[1])) > page_size
    /\ requests[2].params[offset_param].n = page_size + 1
    /\ requests[3].params[offset_param].n > page_size + 1

\* answer j is a page that reports a total
ReportsTotal(j) ==
    /\ IsBody(responses[j]) /\ responses[j].data.shape = "dict"
    /\ PageItems(responses[j]) # <<>>
    /\ DictGet(responses[j].data, total_key, NullV).t = "num"

\* the total of the first answer before request i that reports one
TotalKnownAt(i) ==
    LET first == CHOOSE j \in 1..(i - 1) :
                    ReportsTotal(j) /\ \A h \in 1..(j - 1) : ~ReportsTotal(h)
    IN DictGet(responses[first].data, total_key, NullV)

\* C16: offset strategy: the total is the one the first body that carries
\* it reports, and once it is known no request is issued with an offset at
\* or past it, whatever the total (0 included).
C16_NoRequestPastTotal ==
    pagination_type = "offset" =>
        \A i \in DOMAIN requests :
            (\E j \in 1..(i - 1) : ReportsTotal(j)) =>
                /\ requests[i].params[offset_param].n < TotalKnownAt(i).n
                /\ status # "raised" => total_items = TotalKnownAt(i)

\* the answer with the value under total_key replaced by t, added when the
\* body had none, removed when t is Absent; a body that is no dict has no
\* total to differ in
WithTotal(outcome, t) ==
    IF ~IsBody(outcome) \/ outcome.data.shape # "dict" THEN outcome
    ELSE LET ent == outcome.data.ent
             others == SelectSeq(ent, LAMBDA e : e.k # total_key)
             put == [i \in DOMAIN ent |->
                        IF ent[i].k = total_key THEN [k |-> total_key, v |-> t] ELSE ent[i]]
         IN [outcome EXCEPT !.data =
                DictBody(IF t = Absent THEN others
                         ELSE IF HasKey(outcome.data, total_key) THEN put
                         ELSE Append(ent, [k |-> total_key, v |-> t]))]

\* the totals a body may report instead: none, null, 0, 1
OtherTotals == {Absent, NullV, NumV(0), NumV(1)}

\* the totals a run may have recorded from answers that differ only in
\* their total: any, once a page was appended and every answer was a dict
OtherRecorded ==
    IF pages_retrieved >= 1 /\ \A j \in DOMAIN responses : responses[j].data.shape = "dict"
    THEN {NullV, NumV(0), NumV(1)}
    ELSE {total_items}

\* what a run shows: its requests follow from these, its result is all_data
\* (stop_calls is the log of the bodies the stop_condition was shown)
Visible(L) == [L EXCEPT !.total_items = NullV, !.stop_calls = <<>>]

\* C17: in page, cursor and url strategies the total is informational: a
\* step of a run and the same step of a run whose answers differ only in
\* the value or presence of total_key leave the same result, the same
\* paging state and the same outcome, so both runs issue the same requests
\* and return the same list.
C17_TotalIsInformational ==
    [][pagination_type # "offset" /\ responses' # responses =>
          \A t \in OtherTotals, recorded \in OtherRecorded :
              Visible(Handle([Locals EXCEPT !.total_items = recorded],
                             WithTotal(Last(responses'), t)))
                = Visible(Locals')]_vars

\* a stop condition fires at the page this step appends
StopFires ==
    \/ MaxPagesReached(max_pages, pages_retrieved')
    \/ stop_condition # "none" /\ StopCondition(Last(responses').data)

\* what holds of a step of a page run that appends a page and does not raise
PageStep ==
    LET items == PageItems(Last(responses'))
    IN /\ all_data' = all_data \o items
       /\ status' = "running" <=> (Len(items) >= page_size /\ ~StopFires)
       /\ status' = "running" => page' = page + 1
       /\ Len(items) < page_size => status' = "returned" /\ error' = ""

Fallback(j) ==
    /\ IsBody(responses[j]) /\ responses[j].data.shape = "dict"
    /\ Len(PageItems(responses[j])) >= page_size
    /\ ~HasNext(responses[j].data)

\* the page number after the increments of the fallbacks up to answer j
PageAfter(j) == start_page + Cardinality({h \in 1..j : Fallback(h)})

\* C19: url strategy: the request after a full page without a next link
\* addresses the incremented page and so differs from the request before
\* it, whether or not an earlier answer had carried a next link.
C19_FallbackAdvances ==
    pagination_type = "url" =>
        \A i \in DOMAIN requests :
            i > 1 /\ Fallback(i - 1) =>
                /\ requests[i] # requests[i - 1]
                /\ page_param \in DOMAIN requests[i].params
                /\ requests[i].params[page_param] = NumV(PageAfter(i - 1))

\* the parameters of request i that the pagination put there: not the
\* caller's, and in a request built from a next-URL not the link's own
AddressingSent(i) ==
    IF FromNextUrl(i) THEN {}
    ELSE (DOMAIN requests[i].params \ DOMAIN custom_params)
            \cap {offset_param, page_param, "cursor"}

\* the fields of the inactive modes are as get_paginated_data set them at
\* entry, and no request carries their parameters; pagers are the
\* strategies that may use the page number
ModesIsolated(pagers) ==
    /\ pagination_type # "offset" => offset = 0
    /\ pagination_type # "cursor" => cursor = NullV
    /\ pagination_type # "url" => next_url = NoURL
    /\ pagination_type \notin pagers =>
          page = IF pagination_type = "url" THEN start_page ELSE 0
    /\ \A i \in DOMAIN requests :
          /\ offset_param \in AddressingSent(i) => pagination_type = "offset"
          /\ "cursor" \in AddressingSent(i) => pagination_type = "cursor"
          /\ page_param \in AddressingSent(i) => pagination_type \in pagers

\* C20 as stated: offset changes and is sent only in offset strategy, the
\* cursor token only in cursor strategy, next_url only in url strategy and
\* page only in page strategy.
C20_ModeIsolation == ModesIsolated({"page"})

\* C20, amended: as above, but page changes and is sent in page strategy
\* and in url strategy (its first request and its fallback).
C20_ModeIsolationWithUrlFallback == ModesIsolated({"page", "url"})

\* a url run that has fallen back to the next page number: page was
\* incremented and sent, the other modes' fields are untouched
C20_Witness ==
    /\ pagination_type = "url" /\ Len(requests) = 2
    /\ Fallback(1) /\ page = start_page + 1 /\ next_url = NoURL
    /\ requests[2].params[page_param] = NumV(page)
    /\ offset = 0 /\ cursor = NullV

(***************************************************************************)
(* Termination.  The while loop of get_paginated_data is sequential code   *)
(* that keeps running until it breaks, returns or raises: an iteration     *)
(* that can be taken is taken, which is weak fairness of the iteration.    *)
(***************************************************************************)
LiveServers ==
    {[kind |-> "drying", total |-> 0, reports_total |-> FALSE, dry_from |-> n] :
        n \in 1..MaxRequests}
    \cup {Server("endless")}

InitLive ==
    /\ method = "get_paginated_data"
    /\ suspended = NoCall
    /\ TesterIdle
    /\ server \in LiveServers
    /\ pagination_type \in Strategies
    /\ page_size \in 1..MaxPageSize
    /\ max_pages = NullV
    /\ data_key \in {"", "items"}
    /\ stop_condition = "none"
    /\ base_url = BaseRoot
    /\ custom_params = <<>>
    /\ start_page = 1
    /\ min_interval = 1
    /\ InitCall
    /\ InitLimiter

NextLive == FetchPage

SpecLive == InitLive /\ [][NextLive]_vars /\ WF_vars(NextLive)

\* C21: with max_pages unset, in every strategy, a run against an endpoint
\* that from some request on answers an empty page (or, for offset and page,
\* a page shorter than page_size) eventually returns; a run against an
\* endpoint that always answers a full page with a continuation signal, with
\* no stop condition, is running for ever.
C21_Termination ==
    /\ (server.kind = "drying") ~> (status = "returned")
    /\ [](server.kind = "endless" => status = "running")

\* a run that went on for as long as the pages were full and returned at
\* the first empty one
C21_Witness ==
    /\ server.kind = "drying" /\ server.dry_from = MaxRequests
    /\ status = "returned" /\ Len(requests) = MaxRequests
    /\ pages_retrieved = MaxRequests - 1
    /\ responses[MaxRequests].data \in EmptyPages

(***************************************************************************)
(* One client used for one pagination call after another, by either        *)
(* method, against an endpoint that always has a next page; the caller     *)
(* lets any time pass between two iterations and between two calls.        *)
(***************************************************************************)
Methods == {"get_paginated_data", "get_paginated_data_by_url"}

\* the calls made: every strategy of get_paginated_data with max_pages of 1
\* and more, get_paginated_data_by_url("/items?page=2") with max_pages of 0
\* and more
ClientCalls ==
    {[method |-> "get_paginated_data", pagination_type |-> s, max_pages |-> NumV(n)] :
        s \in Strategies, n \in 1..MaxMaxPages}
    \cup {[method |-> "get_paginated_data_by_url", pagination_type |-> "url",
           max_pages |-> NumV(n)] : n \in 0..MaxMaxPages}

\* the arguments and the entry of the first call
ClientCall ==
    /\ \E c \in ClientCalls :
          /\ method = c.method
          /\ pagination_type = c.pagination_type
          /\ max_pages = c.max_pages
    /\ page_size = 1
    /\ data_key = "items"
    /\ custom_params = <<>>
    /\ stop_condition = "none"
    /\ start_page = 1
    /\ IF method = "get_paginated_data" THEN InitCall ELSE InitCallByUrl(RelNext.u)

InitClient ==
    /\ suspended = NoCall
    /\ TesterIdle
    /\ server = Server("endless")
    /\ base_url = BaseRoot
    /\ min_interval \in 1..MaxMinInterval
    /\ InitLimiter
    /\ ClientCall

\* the transport hands back a body that parses, to get_paginated_data_by_url
FetchByUrl == \E data \in Bodies : IterateByUrl([kind |-> "body", data |-> data], 0)

\* the caller makes the next call on the same client
NewCall ==
    /\ status \in {"returned", "raised"}
    /\ Len(sent) < MaxCalls
    /\ \E c \in ClientCalls :
          /\ method' = c.method
          /\ pagination_type' = c.pagination_type
          /\ max_pages' = c.max_pages
          /\ endpoint' = IF c.method = "get_paginated_data" THEN ItemsEndpoint ELSE NoURL
          /\ page' = IF c.method = "get_paginated_data" /\ c.pagination_type \in {"page", "url"}
                     THEN start_page ELSE 0
          /\ current_url' = IF c.method = "get_paginated_data" THEN NoURL ELSE RelNext.u
          /\ status' = IF c.method = "get_paginated_data"
                           \/ UrlLoopGoesOn(RelNext.u, c.max_pages, 0)
                        THEN "running" ELSE "returned"
    /\ all_data' = <<>>
    /\ offset' = 0
    /\ cursor' = NullV
    /\ next_url' = NoURL
    /\ total_items' = NullV
    /\ pages_retrieved' = 0
    /\ error' = ""
    /\ requests' = <<>>
    /\ responses' = <<>>
    /\ stop_calls' = <<>>
    /\ UNCHANGED <<base_url, page_size, data_key, custom_params, stop_condition,
                   start_page, server, min_interval, limiter, sent, suspended, tester>>

NextClient == FetchPage \/ FetchByUrl \/ NewCall \/ Tick

SpecClient == InitClient /\ [][NextClient]_vars

\* C22: every request a client sends, from get_paginated_data and from
\* get_paginated_data_by_url, comes right after one wait_if_needed of the
\* client's limiter (as many waits as requests, each request sent when its
\* wait returned), and two consecutive requests of the client are at least
\* min_interval apart, within a call and from one call to the next.
C22_RequestsAreLimited ==
    /\ Len(sent) = Len(waits)
    /\ \A i \in DOMAIN sent : sent[i].at = waits[i].returned
    /\ \A i \in DOMAIN sent : i > 1 => sent[i].at - sent[i - 1].at >= min_interval

\* the first request of a call had to sleep because the last request of the
\* call before it, by the other method, was less than min_interval ago
C22_Witness ==
    \E i \in DOMAIN sent :
        /\ i > 1
        /\ sent[i].method # sent[i - 1].method
        /\ waits[i].slept > 0
        /\ Len(requests) = 1

(***************************************************************************)
(* Two get_paginated_data calls on one client, interleaved iteration by    *)
(* iteration (two threads, or two callers taking turns).  The arguments    *)
(* and the locals of a call live in its own frame; the client's base_url,  *)
(* session and limiter are the only state the two calls have in common.    *)
(* The variables hold the call that runs, suspended the frame of the one   *)
(* that waits.                                                             *)
(***************************************************************************)
Frame ==
    [method |-> method, pagination_type |-> pagination_type, page_size |-> page_size,
     max_pages |-> max_pages, data_key |-> data_key, custom_params |-> custom_params,
     stop_condition |-> stop_condition, start_page |-> start_page,
     endpoint |-> endpoint, all_data |-> all_data, page |-> page, offset |-> offset,
     cursor |-> cursor, next_url |-> next_url, total_items |-> total_items,
     pages_retrieved |-> pages_retrieved, current_url |-> current_url,
     status |-> status, error |-> error, requests |-> requests,
     responses |-> responses, stop_calls |-> stop_calls]

\* the frame of get_paginated_data(ItemsEndpoint, ...) at its entry (lines 187-193)
EntryFrame(strategy, size) ==
    [method |-> "get_paginated_data", pagination_type |-> strategy, page_size |-> size,
     max_pages |-> NullV, data_key |-> "items", custom_params |-> <<>>,
     stop_condition |-> "none", start_page |-> 1,
     endpoint |-> ItemsEndpoint, all_data |-> <<>>,
     page |-> IF strategy \in {"page", "url"} THEN 1 ELSE 0, offset |-> 0,
     cursor |-> NullV, next_url |-> NoURL, total_items |-> NullV,
     pages_retrieved |-> 0, current_url |-> NoURL,
     status |-> "running", error |-> "", requests |-> <<>>,
     responses |-> <<>>, stop_calls |-> <<>>]

\* the call whose frame is F goes on, with the given page and offset counters
ResumeWith(F, page_counter, offset_counter) ==
    /\ method' = F.method
    /\ pagination_type' = F.pagination_type
    /\ page_size' = F.page_size
    /\ max_pages' = F.max_pages
    /\ data_key' = F.data_key
    /\ custom_params' = F.custom_params
    /\ stop_condition' = F.stop_condition
    /\ start_page' = F.start_page
    /\ endpoint' = F.endpoint
    /\ all_data' = F.all_data
    /\ page' = page_counter
    /\ offset' = offset_counter
    /\ cursor' = F.cursor
    /\ next_url' = F.next_url
    /\ total_items' = F.total_items
    /\ pages_retrieved' = F.pages_retrieved
    /\ current_url' = F.current_url
    /\ status' = F.status
    /\ error' = F.error
    /\ requests' = F.requests
    /\ responses' = F.responses
    /\ stop_calls' = F.stop_calls

\* a bug that keeps the page and offset counters on the client, where the
\* two calls share them
ResumeSharedCounters(F) == ResumeWith(F, page, offset)

\* page and offset are locals of the call (lines 189-190)
Resume(F) == ResumeWith(F, F.page, F.offset)

InitPair ==
    /\ method = "get_paginated_data"
    /\ TesterIdle
    /\ server \in LiveServers
    /\ pagination_type \in Strategies
    /\ page_size \in 1..MaxPageSize
    /\ max_pages = NullV
    /\ data_key = "items"
    /\ stop_condition = "none"
    /\ base_url = BaseRoot
    /\ custom_params = <<>>
    /\ start_page = 1
    /\ min_interval = 1
    /\ InitCall
    /\ InitLimiter
    /\ suspended \in {EntryFrame(s, MaxPageSize) : s \in Strategies}

\* the call that runs is suspended between two iterations and the other goes on
Switch ==
    /\ suspended # NoCall
    /\ suspended' = Frame
    /\ Resume(suspended)
    /\ UNCHANGED <<base_url, server, min_interval, limiter, sent, tester>>

NextPair == FetchPage \/ Switch

SpecPair == InitPair /\ [][NextPair]_vars

\* the locals of the running call at its entry
EntryLocals ==
    [status |-> "running", error |-> "", all_data |-> <<>>,
     page |-> IF pagination_type \in {"page", "url"} THEN start_page ELSE 0,
     offset |-> 0, cursor |-> NullV, next_url |-> NoURL, total_items |-> NullV,
     pages_retrieved |-> 0, stop_calls |-> <<>>]

\* the locals a call running alone has after the first n of the answers
\* the running call has received
RECURSIVE AloneAfter(_)
AloneAfter(n) ==
    IF n = 0 THEN EntryLocals ELSE Handle(AloneAfter(n - 1), responses[n])

\* C23: in every interleaving of the iterations of two calls on one client,
\* the call that runs is where the same call running alone is after the
\* same answers (its offset, page, cursor, next_url, pages_retrieved,
\* accumulated list and result), each of its iterations issues the request
\* its own locals ask for, and an iteration leaves the frame of the
\* suspended call untouched.
C23_CallsShareNoState ==
    /\ [](Len(requests) = Len(responses) /\ Locals = AloneAfter(Len(responses)))
    /\ [][sent' # sent =>
              /\ requests' = Append(requests, Request)
              /\ Last(sent').url = Request.url
              /\ suspended' = suspended]_vars

\* both calls have made progress in turns: the running one has issued two
\* requests, the suspended one has issued one and is not finished
C23_Witness ==
    /\ suspended # NoCall /\ Len(suspended.requests) = 1 /\ suspended.status = "running"
    /\ Len(requests) = 2 /\ pagination_type = "offset" /\ offset > 0
    /\ suspended.pagination_type = "offset" /\ suspended.offset > 0
    /\ Len(sent) = 3 /\ sent[2].url = suspended.requests[1].url

(***************************************************************************)
(* One get_paginated_data_by_url call, from "/items?page=2" or from        *)
(* "https://h/items?page=2", on a client of either base_url.               *)
(***************************************************************************)
StartUrls == {RelNext.u, AbsSame.u}

InitByUrl ==
    /\ method = "get_paginated_data_by_url"
    /\ suspended = NoCall
    /\ TesterIdle
    /\ server = Server("bylinks")
    /\ pagination_type = "url"
    /\ page_size = 1
    /\ max_pages \in MaxPagesArgs
    /\ data_key = "items"
    /\ stop_condition \in {"none", "done"}
    /\ base_url \in BaseUrls
    /\ custom_params = <<>>
    /\ start_page = 1
    /\ min_interval = 1
    /\ InitLimiter
    /\ \E start_url \in StartUrls : InitCallByUrl(start_url)

NextByUrl == FetchByUrl

SpecByUrl == InitByUrl /\ [][NextByUrl]_vars

\* the value under next_page_key of the answer to request i
NextLinkOf(i) == DictGet(responses[i].data, next_page_key, NullV)

\* at most max_pages requests, none when max_pages is 0
ByUrlWithinMaxPages == max_pages # NullV => Len(requests) <= max_pages.n

\* every request after the first goes to the next link of the answer before it
ByUrlFollowsLinks ==
    \A i \in DOMAIN requests :
        i > 1 => /\ NextAfter(i - 1)
                 /\ NextLinkOf(i - 1).t = "str"
                 /\ GoesTo(requests[i], LinkTarget(NextLinkOf(i - 1)))

\* the answer to request i ends the call: no items, no next link, or
\* stop_condition holds of it
LastPage(i) ==
    \/ EmptyAnswer(responses[i])
    \/ ~NextAfter(i)
    \/ stop_condition # "none" /\ StopCondition(responses[i].data)

\* the call stops at the first such answer and returns the items of all pages
ByUrlStops ==
    /\ \A i \in DOMAIN responses :
          LastPage(i) => i = Len(responses) /\ status = "returned"
    /\ status = "returned" => all_data = ConcatPages(responses)

\* C24: get_paginated_data_by_url issues at most max_pages requests (none
\* when max_pages is 0), every request after the first goes to the next link
\* of the answer before it, a relative link resolved against base_url and an
\* absolute one as it is, and the call returns the items of all pages at the
\* first answer without items, without a truthy next link, or of which
\* stop_condition holds.
C24_ByUrlFollowsNextLinks ==
    method = "get_paginated_data_by_url" =>
        ByUrlWithinMaxPages /\ ByUrlFollowsLinks /\ ByUrlStops

(***************************************************************************)
(* src/tests/security-tests.py: main and SecurityTester.run_all_tests.     *)
(* A probe returns True, returns False or raises an Exception; which one   *)
(* depends on the host under test and is left open.                        *)
(***************************************************************************)
\* lines 198-205
tests ==
    <<"Port Accessibility", "SSL Configuration", "HTTP to HTTPS Redirect",
      "Security Headers", "Application Availability", "Health Endpoint">>

ProbeOutcomes == {"True", "False", "raises"}

\* a bug that takes a probe that raised for one that passed
RecordedUnlessFalse(test_name, outcome) ==
    [name |-> test_name, result |-> outcome # "False"]

\* lines 210-216: results.append((test_name, result)), and
\* results.append((test_name, False)) in the except branch
Recorded(test_name, outcome) == [name |-> test_name, result |-> outcome = "True"]

\* passed = sum(1 for _, result in results if result); passed == total
AllPassed(rs) == Cardinality({i \in DOMAIN rs : rs[i].result}) = Len(rs)

InitST ==
    /\ argc \in 1..MaxArgc
    /\ pc = "main"
    /\ next_test = 1
    /\ called = <<>>
    /\ results = <<>>
    /\ success = FALSE
    /\ exit_status = -1
    /\ method = "none"
    /\ suspended = NoCall
    /\ server = Server("any")
    /\ pagination_type = "offset"
    /\ page_size = 1
    /\ max_pages = NullV
    /\ data_key = ""
    /\ stop_condition = "none"
    /\ base_url = BaseRoot
    /\ custom_params = <<>>
    /\ start_page = 1
    /\ min_interval = 1
    /\ endpoint = NoURL
    /\ all_data = <<>>
    /\ page = 0
    /\ offset = 0
    /\ cursor = NullV
    /\ next_url = NoURL
    /\ total_items = NullV
    /\ pages_retrieved = 0
    /\ current_url = NoURL
    /\ status = "idle"
    /\ error = ""
    /\ requests = <<>>
    /\ responses = <<>>
    /\ stop_calls = <<>>
    /\ InitLimiter

\* main, lines 239-245: the usage check, then run_all_tests is entered
Main ==
    /\ pc = "main"
    /\ IF argc # 2
       THEN pc' = "exited" /\ exit_status' = 1
       ELSE pc' = "tests" /\ exit_status' = exit_status
    /\ UNCHANGED <<config, call, limiter, sent, suspended, argc, next_test, called,
                   results, success>>

\* one turn of the for loop, lines 208-216
RunTest ==
    /\ pc = "tests"
    /\ next_test <= Len(tests)
    /\ \E outcome \in ProbeOutcomes :
          /\ called' = Append(called, [name |-> tests[next_test], outcome |-> outcome])
          /\ results' = Append(results, Recorded(tests[next_test], outcome))
    /\ next_test' = next_test + 1
    /\ UNCHANGED <<config, call, limiter, sent, suspended, argc, pc, success,
                   exit_status>>

\* the summary and the return of run_all_tests, lines 218-236
Summarise ==
    /\ pc = "tests"
    /\ next_test > Len(tests)
    /\ success' = AllPassed(results)
    /\ pc' = "returned"
    /\ UNCHANGED <<config, call, limiter, sent, suspended, argc, next_test, called,
                   results, exit_status>>

\* sys.exit(0 if success else 1), line 247
Exit ==
    /\ pc = "returned"
    /\ exit_status' = IF success THEN 0 ELSE 1
    /\ pc' = "exited"
    /\ UNCHANGED <<config, call, limiter, sent, suspended, argc, next_test, called,
                   results, success>>

NextST == Main \/ RunTest \/ Summarise \/ Exit

SpecST == InitST /\ [][NextST]_vars

\* C25: run_all_tests calls the six probes once each in the order of the
\* tests list, whatever the earlier ones did; a probe that returned False or
\* raised is recorded as failed and one that returned True as passed; the
\* method returns True exactly when every probe returned True; and main
\* exits with 0 exactly when it was given one argument and run_all_tests
\* returned True, and with 1 otherwise.
C25_AllProbesRun ==
    /\ Len(called) <= Len(tests)
    /\ \A i \in DOMAIN called : called[i].name = tests[i]
    /\ results = [i \in DOMAIN called |->
                    [name |-> tests[i], result |-> called[i].outcome = "True"]]
    /\ pc = "returned" \/ (pc = "exited" /\ argc = 2) =>
          /\ Len(called) = Len(tests)
          /\ success = (\A i \in DOMAIN called : called[i].outcome = "True")
    /\ pc = "exited" =>
          exit_status = IF argc = 2 /\ success THEN 0 ELSE 1

\* a run in which the first probe raised and the second returned False, the
\* other four passed, and the script exited with 1
C25_Witness ==
    /\ pc = "exited" /\ exit_status = 1 /\ argc = 2
    /\ Len(called) = Len(tests)
    /\ called[1].outcome = "raises" /\ called[2].outcome = "False"
    /\ \A i \in 3..Len(tests) : called[i].outcome = "True" /\ results[i].result

====
